---- MODULE Spec2Model ----
(***************************************************************************)
(* Model of scheduler/calls/calls.go: the constructors of scheduler.Call   *)
(* values, the call-level modifiers Filters and Framework, the Accept      *)
(* accumulator (acceptBuilder) and the Reconcile task mapping.             *)
(*                                                                         *)
(* Go values are modelled as follows:                                      *)
(*   - a pointer (or optional field) is Nil (<<>>) or Some(v) (<<v>>);     *)
(*   - a slice the code builds is a record [isNil, elems], so that the nil *)
(*     slice and the empty non-nil slice stay different values;            *)
(*   - a string is a TLA+ string, "" being the empty string;               *)
(*   - a closure is a record of the values it closes over.                 *)
(***************************************************************************)
EXTENDS Integers, Sequences, FiniteSets

VARIABLES
  pc,        \* "start": nothing constructed; "built": call holds a Call; "panic": aborted
  call,      \* the scheduler.Call most recently constructed, as modified since
  built,     \* history: the value of call right after its constructor returned
  args,      \* history: the constructor and the inputs that produced call
  last,      \* history: the last constructor or modifier that ran, with its inputs
  lastFw,    \* history: the id of the last Framework modifier applied to call
  ab,        \* the acceptBuilder of the most recent Accept, as its loop left it
  first,     \* the Call returned by the previous Accept (two-call scenario)
  firstArgs  \* history: the modifiers given to that previous Accept

vars == <<pc, call, built, args, last, lastFw, ab, first, firstArgs>>

----------------------------------------------------------------------------
(* Bounds of the model *)

MaxOpts == 2         \* AcceptOpt modifiers handed to one Accept
MaxOps == 3          \* operation builders over all modifiers of one Accept
MaxPoolOpts == 2     \* AcceptOpt modifiers per Accept when drawn from OptPool
MaxDecline == 2      \* offer identifiers handed to Decline
MaxReconcileOpts == 2 \* ReconcileOpt modifiers handed to Reconcile

----------------------------------------------------------------------------
(* Go values *)

Nil == <<>>
Some(v) == <<v>>
Deref(p) == p[1]

NilSlice == [isNil |-> TRUE, elems |-> <<>>]
MakeSlice(s) == [isNil |-> FALSE, elems |-> s]
\* append(s, x): the result is never the nil slice
AppendSlice(s, x) == [isNil |-> FALSE, elems |-> Append(s.elems, x)]

Range(s) == {s[i] : i \in 1..Len(s)}
\* every order in which Go may iterate over a map with key set S
IterationOrders(S) ==
  {s \in [1..Cardinality(S) -> S] : \A i, j \in 1..Cardinality(S) : i # j => s[i] # s[j]}
SeqsUpTo(S, n) == UNION {[1..k -> S] : k \in 0..n}

----------------------------------------------------------------------------
(* Input domains *)

OfferIDValues == {"o1", "o2"}
TaskIDValues == {"", "t1"}
AgentIDValues == {"", "a1", "agent-7"}
ExecutorIDValues == {"", "e1"}
FrameworkIDValues == {"", "f1", "f2"}
ByteSlices == {<<>>, <<7>>}
RequestLists == {<<>>, <<"req1">>}
TaskInfoLists == {<<"task1">>}
ResourceLists == {<<"cpus">>}
FilterOptLists == {<<>>, <<"refuse5">>, <<"refuse5", "refuse9">>}
TaskKeys == {"t1", "t2"}
TaskAgents == {"", "a1"}

OfferID(v) == [Value |-> v]
FrameworkInfos ==
  {[Name |-> "fw", ID |-> Nil], [Name |-> "fw", ID |-> Some([Value |-> "f1"])]}

----------------------------------------------------------------------------
(* scheduler.Call *)

PayloadFields ==
  {"Subscribe", "Accept", "Decline", "Kill", "Shutdown", "Acknowledge",
   "Reconcile", "Message", "Request"}
CallTypes ==
  {"SUBSCRIBE", "ACCEPT", "DECLINE", "REVIVE", "KILL", "SHUTDOWN", "ACKNOWLEDGE",
   "RECONCILE", "MESSAGE", "REQUEST"}

\* the zero value of scheduler.Call: what a composite literal leaves unset
ZeroCall ==
  [Type |-> Nil, FrameworkID |-> Nil, Subscribe |-> Nil, Accept |-> Nil,
   Decline |-> Nil, Kill |-> Nil, Shutdown |-> Nil, Acknowledge |-> Nil,
   Reconcile |-> Nil, Message |-> Nil, Request |-> Nil]

\* the payload variants a Call has populated
Populated(c) == {f \in PayloadFields : c[f] # Nil}

----------------------------------------------------------------------------
(* Helpers of the mesos and scheduler packages used by calls.go *)

\* (*mesos.FrameworkInfo).GetID: the identity the info already carries, if any
GetID(info) == info.ID

\* mesos.OptionalFilters: no Filters value for no options, else the options applied
OptionalFilters(fo) == IF Len(fo) = 0 THEN Nil ELSE Some([Opts |-> fo])

\* variant: the empty string is not normalised to an absent identifier
OptionalAgentIDAlwaysPresent(agentID) == Some([Value |-> agentID])

optionalAgentID(agentID) ==
  IF agentID = "" THEN Nil ELSE Some([Value |-> agentID])

----------------------------------------------------------------------------
(* Constructors without an accumulator *)

Subscribe(force, info) ==
  [ZeroCall EXCEPT !.Type = Some("SUBSCRIBE"),
                   !.FrameworkID = GetID(info),
                   !.Subscribe = Some([FrameworkInfo |-> info, Force |-> force])]

\* variant: Revive also fills in a payload
ReviveWithDeclinePayload ==
  [ZeroCall EXCEPT !.Type = Some("REVIVE"),
                   !.Decline = Some([OfferIDs |-> <<>>, Filters |-> Nil])]

Revive == [ZeroCall EXCEPT !.Type = Some("REVIVE")]

Decline(offerIDs) ==
  [ZeroCall EXCEPT !.Type = Some("DECLINE"),
                   !.Decline = Some([OfferIDs |-> offerIDs, Filters |-> Nil])]

Kill(taskID, agentID) ==
  [ZeroCall EXCEPT !.Type = Some("KILL"),
                   !.Kill = Some([TaskID |-> [Value |-> taskID],
                                  AgentID |-> optionalAgentID(agentID)])]

Shutdown(executorID, agentID) ==
  [ZeroCall EXCEPT !.Type = Some("SHUTDOWN"),
                   !.Shutdown = Some([ExecutorID |-> [Value |-> executorID],
                                      AgentID |-> [Value |-> agentID]])]

Acknowledge(agentID, taskID, uuid) ==
  [ZeroCall EXCEPT !.Type = Some("ACKNOWLEDGE"),
                   !.Acknowledge = Some([AgentID |-> [Value |-> agentID],
                                         TaskID |-> [Value |-> taskID],
                                         UUID |-> uuid])]

Message(agentID, executorID, data) ==
  [ZeroCall EXCEPT !.Type = Some("MESSAGE"),
                   !.Message = Some([AgentID |-> [Value |-> agentID],
                                     ExecutorID |-> [Value |-> executorID],
                                     Data |-> data])]

Request(requests) ==
  [ZeroCall EXCEPT !.Type = Some("REQUEST"),
                   !.Request = Some([Requests |-> requests])]

----------------------------------------------------------------------------
(* Operation builders: each closure is [fn, arg], invoked by Invoke *)

ZeroOperation ==
  [Type |-> Nil, Launch |-> Nil, Reserve |-> Nil, Unreserve |-> Nil,
   Create |-> Nil, Destroy |-> Nil]

OpLaunch(ti) ==
  [ZeroOperation EXCEPT !.Type = Some("LAUNCH"), !.Launch = Some([TaskInfos |-> ti])]
OpReserve(rs) ==
  [ZeroOperation EXCEPT !.Type = Some("RESERVE"), !.Reserve = Some([Resources |-> rs])]
OpUnreserve(rs) ==
  [ZeroOperation EXCEPT !.Type = Some("UNRESERVE"), !.Unreserve = Some([Resources |-> rs])]
OpCreate(rs) ==
  [ZeroOperation EXCEPT !.Type = Some("CREATE"), !.Create = Some([Volumes |-> rs])]
OpDestroy(rs) ==
  [ZeroOperation EXCEPT !.Type = Some("DESTROY"), !.Destroy = Some([Volumes |-> rs])]

\* op(): calling the OperationBuilder closure b
Invoke(b) ==
  CASE b.fn = "OpLaunch" -> OpLaunch(b.arg)
    [] b.fn = "OpReserve" -> OpReserve(b.arg)
    [] b.fn = "OpUnreserve" -> OpUnreserve(b.arg)
    [] b.fn = "OpCreate" -> OpCreate(b.arg)
    [] b.fn = "OpDestroy" -> OpDestroy(b.arg)

OperationBuilders ==
  {[fn |-> "OpLaunch", arg |-> ti] : ti \in TaskInfoLists}
  \cup {[fn |-> f, arg |-> rs] :
          f \in {"OpReserve", "OpUnreserve", "OpCreate", "OpDestroy"}, rs \in ResourceLists}

----------------------------------------------------------------------------
(* acceptBuilder, OfferWithOperations, Accept *)

\* variant: the accumulator of the previous Accept is used again
ReusedAcceptBuilder == ab

\* the accumulator Accept allocates: an empty map and the nil operations slice
NewAcceptBuilder == [offerIDs |-> {}, operations |-> NilSlice]

\* variant: each operation is put in front of the list
RECURSIVE AppendOperationsPrepending(_, _, _)
AppendOperationsPrepending(operations, opOpts, i) ==
  IF i > Len(opOpts) THEN operations
  ELSE AppendOperationsPrepending(
         [isNil |-> FALSE, elems |-> <<Invoke(opOpts[i])>> \o operations.elems],
         opOpts, i + 1)

\* the loop of OfferWithOperations' closure over opOpts, from position i on
RECURSIVE AppendOperations(_, _, _)
AppendOperations(operations, opOpts, i) ==
  IF i > Len(opOpts) THEN operations
  ELSE AppendOperations(AppendSlice(operations, Invoke(opOpts[i])), opOpts, i + 1)

\* the AcceptOpt closure OfferWithOperations(oid, opOpts...) returns
OfferWithOperations(oid, opOpts) == [oid |-> oid, opOpts |-> opOpts]

\* variant: an offer given without builders is not recorded
ApplyAcceptOptIgnoringBareOffer(opt, b) ==
  IF Len(opt.opOpts) = 0 THEN b
  ELSE [offerIDs |-> b.offerIDs \cup {opt.oid},
        operations |-> AppendOperations(b.operations, opt.opOpts, 1)]

\* op(ab): the body of that closure
ApplyAcceptOpt(opt, b) ==
  [offerIDs |-> b.offerIDs \cup {opt.oid},
   operations |-> AppendOperations(b.operations, opt.opOpts, 1)]

\* for _, op := range ops { op(ab) }, from position i on
RECURSIVE ApplyAcceptOpts(_, _, _)
ApplyAcceptOpts(ops, b, i) ==
  IF i > Len(ops) THEN b
  ELSE ApplyAcceptOpts(ops, ApplyAcceptOpt(ops[i], b), i + 1)

\* the Call Accept returns for the accumulator b, the map iterated in order ids
AcceptCall(b, ids) ==
  [ZeroCall EXCEPT !.Type = Some("ACCEPT"),
                   !.Accept = Some([OfferIDs |-> MakeSlice(ids),
                                    Operations |-> b.operations,
                                    Filters |-> Nil])]

----------------------------------------------------------------------------
(* ReconcileTasks, Reconcile *)

ZeroReconcile == [Tasks |-> NilSlice]

\* a task mapping is a function from a set of task IDs to agent IDs
TaskMappings == UNION {[K -> TaskAgents] : K \in SUBSET TaskKeys}

\* the closure ReconcileTasks(tasks) returns
ReconcileTasks(tasks) == [tasks |-> tasks]

\* variant: the agent ID is stored as given, also when empty
ReconcileTaskEntryAgentVerbatim(tasks, k) ==
  [TaskID |-> [Value |-> k], AgentID |-> Some([Value |-> tasks[k]])]

ReconcileTaskEntry(tasks, k) ==
  [TaskID |-> [Value |-> k], AgentID |-> optionalAgentID(tasks[k])]

\* variant: an empty mapping leaves an empty, non-nil list
ApplyReconcileTasksEmptyList(opt, cr) ==
  {[cr EXCEPT !.Tasks = MakeSlice([i \in 1..Len(order) |->
                                     ReconcileTaskEntry(opt.tasks, order[i])])] :
     order \in IterationOrders(DOMAIN opt.tasks)}

\* the body of that closure: every Call_Reconcile it may leave, one per map order
ApplyReconcileTasks(opt, cr) ==
  IF Cardinality(DOMAIN opt.tasks) = 0
  THEN {[cr EXCEPT !.Tasks = NilSlice]}
  ELSE {[cr EXCEPT !.Tasks = MakeSlice([i \in 1..Len(order) |->
                                          ReconcileTaskEntry(opt.tasks, order[i])])] :
          order \in IterationOrders(DOMAIN opt.tasks)}

\* (*scheduler.Call_Reconcile).With: the options applied in the order given
RECURSIVE With(_, _, _)
With(cr, opts, i) ==
  IF i > Len(opts) THEN {cr}
  ELSE UNION {With(c, opts, i + 1) : c \in ApplyReconcileTasks(opts[i], cr)}

ReconcileCall(cr) ==
  [ZeroCall EXCEPT !.Type = Some("RECONCILE"), !.Reconcile = Some(cr)]

----------------------------------------------------------------------------
(* Call-level modifiers: the closures Filters(fo...) and Framework(id) return *)

\* variant: no Type reaches the default case
FiltersSupportedEverywhere(c) == TRUE

\* the switch of Filters reaches a case other than default
FiltersSupported(c) == Deref(c.Type) \in {"ACCEPT", "DECLINE"}

\* variant: the filters always go to the Decline payload
ApplyFiltersAlwaysToDecline(c, fo) ==
  IF c.Decline # Nil
  THEN [c EXCEPT !.Decline = Some([Deref(c.Decline) EXCEPT !.Filters = OptionalFilters(fo)])]
  ELSE [c EXCEPT !.Decline = Some([OfferIDs |-> <<>>, Filters |-> OptionalFilters(fo)])]

ApplyFilters(c, fo) ==
  CASE Deref(c.Type) = "ACCEPT" ->
         [c EXCEPT !.Accept = Some([Deref(c.Accept) EXCEPT !.Filters = OptionalFilters(fo)])]
    [] Deref(c.Type) = "DECLINE" ->
         [c EXCEPT !.Decline = Some([Deref(c.Decline) EXCEPT !.Filters = OptionalFilters(fo)])]
    [] OTHER -> c

\* variant: a FrameworkID already present is kept
ApplyFrameworkIfUnset(c, id) ==
  IF c.FrameworkID = Nil THEN [c EXCEPT !.FrameworkID = Some([Value |-> id])] ELSE c

ApplyFramework(c, id) == [c EXCEPT !.FrameworkID = Some([Value |-> id])]

----------------------------------------------------------------------------
(* Inputs of Accept *)

PoolBuilderLists ==
  {<<>>,
   <<[fn |-> "OpLaunch", arg |-> <<"task1">>]>>,
   <<[fn |-> "OpReserve", arg |-> <<"cpus">>], [fn |-> "OpCreate", arg |-> <<"cpus">>]>>}

\* AcceptOpt values a caller holds and may hand to more than one Accept
OptPool ==
  {OfferWithOperations(OfferID(o), bs) : o \in OfferIDValues, bs \in PoolBuilderLists}
PoolArgs == SeqsUpTo(OptPool, MaxPoolOpts)

\* every way to cut a list of len builders into n consecutive (maybe empty) runs
Cuts(n, len) ==
  {c \in [1..n -> 0..len] :
     /\ \A i \in 1..n : i < n => c[i] <= c[i + 1]
     /\ IF n = 0 THEN len = 0 ELSE c[n] = len}
Chunk(flat, c, i) == SubSeq(flat, (IF i = 1 THEN 0 ELSE c[i - 1]) + 1, c[i])

\* the lists of n modifiers that share out the builders of flat, in their order
AcceptArgs(flat, n) ==
  {[i \in 1..n |-> OfferWithOperations(OfferID(o[i]), Chunk(flat, c, i))] :
     c \in Cuts(n, Len(flat)), o \in [1..n -> OfferIDValues]}

----------------------------------------------------------------------------
(* Actions *)

NoArgs == [fn |-> "none"]

\* a constructor returned c for the inputs a
Constructed(c, a) ==
  /\ call' = c
  /\ built' = c
  /\ args' = a
  /\ last' = a
  /\ lastFw' = Nil
  /\ pc' = "built"

DoSubscribe ==
  /\ pc = "start"
  /\ \E force \in BOOLEAN, info \in FrameworkInfos :
       Constructed(Subscribe(force, info),
                   [fn |-> "Subscribe", force |-> force, info |-> info])
  /\ UNCHANGED <<ab, first, firstArgs>>

DoRevive ==
  /\ pc = "start"
  /\ Constructed(Revive, [fn |-> "Revive"])
  /\ UNCHANGED <<ab, first, firstArgs>>

DoDecline ==
  /\ pc = "start"
  /\ \E ids \in SeqsUpTo(OfferIDValues, MaxDecline) :
       LET offerIDs == [i \in 1..Len(ids) |-> OfferID(ids[i])]
       IN Constructed(Decline(offerIDs), [fn |-> "Decline", offerIDs |-> offerIDs])
  /\ UNCHANGED <<ab, first, firstArgs>>

DoKill ==
  /\ pc = "start"
  /\ \E taskID \in TaskIDValues, agentID \in AgentIDValues :
       Constructed(Kill(taskID, agentID),
                   [fn |-> "Kill", taskID |-> taskID, agentID |-> agentID])
  /\ UNCHANGED <<ab, first, firstArgs>>

DoShutdown ==
  /\ pc = "start"
  /\ \E executorID \in ExecutorIDValues, agentID \in AgentIDValues :
       Constructed(Shutdown(executorID, agentID),
                   [fn |-> "Shutdown", executorID |-> executorID, agentID |-> agentID])
  /\ UNCHANGED <<ab, first, firstArgs>>

DoAcknowledge ==
  /\ pc = "start"
  /\ \E agentID \in AgentIDValues, taskID \in TaskIDValues, uuid \in ByteSlices :
       Constructed(Acknowledge(agentID, taskID, uuid),
                   [fn |-> "Acknowledge", agentID |-> agentID, taskID |-> taskID,
                    uuid |-> uuid])
  /\ UNCHANGED <<ab, first, firstArgs>>

DoMessage ==
  /\ pc = "start"
  /\ \E agentID \in AgentIDValues, executorID \in ExecutorIDValues, data \in ByteSlices :
       Constructed(Message(agentID, executorID, data),
                   [fn |-> "Message", agentID |-> agentID, executorID |-> executorID,
                    data |-> data])
  /\ UNCHANGED <<ab, first, firstArgs>>

DoRequest ==
  /\ pc = "start"
  /\ \E requests \in RequestLists :
       Constructed(Request(requests), [fn |-> "Request", requests |-> requests])
  /\ UNCHANGED <<ab, first, firstArgs>>

DoReconcile ==
  /\ pc = "start"
  /\ \E maps \in SeqsUpTo(TaskMappings, MaxReconcileOpts) :
       LET opts == [i \in 1..Len(maps) |-> ReconcileTasks(maps[i])]
       IN \E cr \in With(ZeroReconcile, opts, 1) :
            Constructed(ReconcileCall(cr), [fn |-> "Reconcile", opts |-> opts])
  /\ UNCHANGED <<ab, first, firstArgs>>

\* Accept(ops...): a new accumulator, the modifiers applied, the map read out
Accept(ops) ==
  LET b == ApplyAcceptOpts(ops, NewAcceptBuilder, 1)
  IN /\ ab' = b
     /\ \E ids \in IterationOrders(b.offerIDs) :
          Constructed(AcceptCall(b, ids), [fn |-> "Accept", ops |-> ops])

DoAccept ==
  /\ pc = "start"
  /\ \E ops \in PoolArgs : Accept(ops)
  /\ UNCHANGED <<first, firstArgs>>

DoAcceptAny ==
  /\ pc = "start"
  /\ \E flat \in SeqsUpTo(OperationBuilders, MaxOps), n \in 0..MaxOpts :
       \E ops \in AcceptArgs(flat, n) : Accept(ops)
  /\ UNCHANGED <<first, firstArgs>>

\* a second Accept of the same caller; the Call of the first one is kept
DoAcceptAgain ==
  /\ pc = "built"
  /\ first = Nil
  /\ first' = Some(call)
  /\ firstArgs' = args.ops
  /\ \E ops \in PoolArgs : Accept(ops)

\* opt(call) for opt = Filters(fo...)
DoFilters ==
  /\ pc = "built"
  /\ \E fo \in FilterOptLists :
       /\ last' = [fn |-> "Filters", fo |-> fo]
       /\ IF FiltersSupported(call)
          THEN call' = ApplyFilters(call, fo) /\ pc' = pc
          ELSE call' = call /\ pc' = "panic"
  /\ UNCHANGED <<built, args, lastFw, ab, first, firstArgs>>

\* opt(call) for opt = Framework(id)
DoFramework ==
  /\ pc = "built"
  /\ \E id \in FrameworkIDValues :
       /\ last' = [fn |-> "Framework", id |-> id]
       /\ lastFw' = Some(id)
       /\ call' = ApplyFramework(call, id)
  /\ UNCHANGED <<pc, built, args, ab, first, firstArgs>>

Init ==
  /\ pc = "start"
  /\ call = ZeroCall
  /\ built = ZeroCall
  /\ args = NoArgs
  /\ last = NoArgs
  /\ lastFw = Nil
  /\ ab = [offerIDs |-> {}, operations |-> [isNil |-> TRUE, elems |-> <<>>]]
  /\ first = Nil
  /\ firstArgs = <<>>

Next ==
  \/ DoSubscribe
  \/ DoAccept
  \/ DoDecline
  \/ DoRevive
  \/ DoKill
  \/ DoShutdown
  \/ DoAcknowledge
  \/ DoReconcile
  \/ DoMessage
  \/ DoRequest
  \/ DoFilters
  \/ DoFramework

\* one constructor, then any number of call-level modifiers
Spec == Init /\ [][Next]_vars

\* one Accept over every list of at most MaxOpts modifiers holding at most MaxOps
\* builders in all
SpecAccept == Init /\ [][DoAcceptAny]_vars

NextReuse == DoAccept \/ DoAcceptAgain

\* two Accept constructions in a row by a caller reusing its AcceptOpt values
SpecReuse == Init /\ [][NextReuse]_vars

----------------------------------------------------------------------------
(* Vocabulary of the properties *)

\* the Type each constructor is documented to produce
KindOf(fn) ==
  CASE fn = "Subscribe" -> "SUBSCRIBE"
    [] fn = "Accept" -> "ACCEPT"
    [] fn = "Decline" -> "DECLINE"
    [] fn = "Revive" -> "REVIVE"
    [] fn = "Kill" -> "KILL"
    [] fn = "Shutdown" -> "SHUTDOWN"
    [] fn = "Acknowledge" -> "ACKNOWLEDGE"
    [] fn = "Reconcile" -> "RECONCILE"
    [] fn = "Message" -> "MESSAGE"
    [] fn = "Request" -> "REQUEST"

TypeOf(c) == Deref(c.Type)

\* the operations a list of modifiers asks for: each modifier's builders invoked
\* in their order, the modifiers' lists joined in the modifiers' order
OperationsOf(opt) == [j \in 1..Len(opt.opOpts) |-> Invoke(opt.opOpts[j])]
RECURSIVE ExpectedOperations(_)
ExpectedOperations(ops) ==
  IF Len(ops) = 0 THEN <<>>
  ELSE OperationsOf(Head(ops)) \o ExpectedOperations(Tail(ops))

OffersOf(ops) == {ops[i].oid : i \in 1..Len(ops)}

NoRepeats(s) == \A i, j \in 1..Len(s) : i # j => s[i] # s[j]

IndexPermutations(n) == {p \in [1..n -> 1..n] : \A i, j \in 1..n : i # j => p[i] # p[j]}

\* the (taskID, agentID-or-absent) pairs of a task list / of a mapping
TaskPairs(elems) == {<<elems[i].TaskID.Value, elems[i].AgentID>> : i \in 1..Len(elems)}
MappingPairs(m) ==
  {<<k, IF m[k] = "" THEN Nil ELSE Some([Value |-> m[k]])>> : k \in DOMAIN m}

\* the mapping of the last ReconcileTasks modifier given to Reconcile
LastMapping == args.opts[Len(args.opts)].tasks

\* a Call without the fields the call-level modifiers are allowed to write
WithoutFilters(c) ==
  [c EXCEPT !.Accept = IF c.Accept = Nil THEN Nil
                       ELSE Some([Deref(c.Accept) EXCEPT !.Filters = Nil]),
            !.Decline = IF c.Decline = Nil THEN Nil
                        ELSE Some([Deref(c.Decline) EXCEPT !.Filters = Nil])]
WithoutFrameworkID(c) == [c EXCEPT !.FrameworkID = Nil]

----------------------------------------------------------------------------
(* Properties *)

\* C1 as stated: every constructor returns a Call whose Type is its kind and
\* whose populated payload variants are exactly the one variant of that kind.
\* Revive populates no variant at all.
C1_AsStated ==
  pc # "start" =>
    /\ TypeOf(built) = KindOf(args.fn)
    /\ Populated(built) = {args.fn}

\* C1 amended: every constructor returns a Call whose Type is its kind; Revive
\* populates no payload variant, and each of the other nine populates exactly
\* the variant of its kind and no other.
C1_TypeMatchesPayload ==
  pc # "start" =>
    /\ TypeOf(built) = KindOf(args.fn)
    /\ Populated(built) = IF args.fn = "Revive" THEN {} ELSE {args.fn}

C1_Witness ==
  /\ pc = "built"
  /\ args.fn = "Revive"
  /\ TypeOf(built) = "REVIVE"
  /\ Populated(built) = {}

\* C2: the Filters modifier aborts on a Call of any Type but ACCEPT and DECLINE,
\* and nothing else aborts; on an ACCEPT Call it succeeds and the Accept payload
\* carries the filters, on a DECLINE Call it succeeds and the Decline payload
\* carries them.
C2_FiltersDispatch ==
  /\ pc = "panic" =>
       last.fn = "Filters" /\ TypeOf(call) \notin {"ACCEPT", "DECLINE"}
  /\ (pc # "start" /\ last.fn = "Filters") =>
       CASE TypeOf(call) = "ACCEPT" ->
              pc = "built" /\ Deref(call.Accept).Filters = OptionalFilters(last.fo)
         [] TypeOf(call) = "DECLINE" ->
              pc = "built" /\ Deref(call.Decline).Filters = OptionalFilters(last.fo)
         [] OTHER -> pc = "panic"

C2_Witness ==
  /\ pc = "panic"
  /\ args.fn = "Subscribe"
  /\ last.fn = "Filters"

\* C3: the Operations of an Accept call are the operations of the modifiers'
\* builders, in the modifiers' order and within a modifier in the builders'
\* order: nothing dropped, repeated or moved.
C3_OperationsInOrder ==
  (pc = "built" /\ args.fn = "Accept") =>
    Deref(built.Accept).Operations.elems = ExpectedOperations(args.ops)

C3_Witness ==
  /\ pc = "built"
  /\ args.fn = "Accept"
  /\ Len(args.ops) = 2
  /\ args.ops[1].oid # args.ops[2].oid
  /\ [j \in 1..Len(args.ops[1].opOpts) |-> args.ops[1].opOpts[j].fn]
       = <<"OpReserve", "OpLaunch">>
  /\ [j \in 1..Len(args.ops[2].opOpts) |-> args.ops[2].opOpts[j].fn] = <<"OpCreate">>
  /\ LET operations == Deref(call.Accept).Operations.elems
     IN [j \in 1..Len(operations) |-> TypeOf(operations[j])]
          = <<"RESERVE", "LAUNCH", "CREATE">>

\* C4: the OfferIDs of an Accept call hold every offer identifier supplied, each
\* exactly once, also one supplied with no builders; and building from any
\* permutation of the modifiers collects the same set of identifiers.
C4_OfferIDsAreTheSet ==
  (pc = "built" /\ args.fn = "Accept") =>
    LET ids == Deref(built.Accept).OfferIDs.elems
        n == Len(args.ops)
    IN /\ NoRepeats(ids)
       /\ Range(ids) = OffersOf(args.ops)
       /\ \A p \in IndexPermutations(n) :
            ApplyAcceptOpts([i \in 1..n |-> args.ops[p[i]]], NewAcceptBuilder, 1).offerIDs
              = Range(ids)

C4_Witness ==
  /\ pc = "built"
  /\ args.fn = "Accept"
  /\ Len(args.ops) = 2
  /\ args.ops[1].oid = args.ops[2].oid
  /\ Len(args.ops[1].opOpts) = 0
  /\ Len(args.ops[2].opOpts) = 0
  /\ Deref(call.Accept).OfferIDs.elems = <<args.ops[1].oid>>

\* C5 as stated: Reconcile with an empty mapping leaves a Tasks value that differs
\* from the Tasks of a Reconcile built with no ReconcileTasks modifier.
C5_AsStated ==
  (pc # "start" /\ args.fn = "Reconcile" /\ Len(args.opts) > 0
     /\ DOMAIN LastMapping = {}) =>
    Deref(built.Reconcile).Tasks # ZeroReconcile.Tasks

\* C5 amended: Reconcile whose last ReconcileTasks modifier has an empty mapping
\* leaves the Tasks field nil: the very value of a Reconcile built with no
\* modifier, also when an earlier modifier had filled the list.
C5_EmptyMappingIsNil ==
  (pc # "start" /\ args.fn = "Reconcile") =>
    /\ Len(args.opts) = 0 => Deref(built.Reconcile).Tasks = NilSlice
    /\ (Len(args.opts) > 0 /\ DOMAIN LastMapping = {}) =>
         Deref(built.Reconcile).Tasks = NilSlice

C5_Witness ==
  /\ pc = "built"
  /\ args.fn = "Reconcile"
  /\ Len(args.opts) = 2
  /\ DOMAIN args.opts[1].tasks # {}
  /\ DOMAIN args.opts[2].tasks = {}
  /\ Deref(call.Reconcile).Tasks = NilSlice

\* C6: for a non-empty mapping the Tasks list has one entry per key, and its
\* (taskID, agentID-or-absent) pairs are those of the mapping, the agent being
\* absent exactly for the empty string.
C6_TasksMatchMapping ==
  (pc # "start" /\ args.fn = "Reconcile" /\ Len(args.opts) > 0
     /\ DOMAIN LastMapping # {}) =>
    LET tasks == Deref(built.Reconcile).Tasks
    IN /\ ~tasks.isNil
       /\ Len(tasks.elems) = Cardinality(DOMAIN LastMapping)
       /\ {tasks.elems[i].TaskID.Value : i \in 1..Len(tasks.elems)} = DOMAIN LastMapping
       /\ TaskPairs(tasks.elems) = MappingPairs(LastMapping)

C6_Witness ==
  /\ pc = "built"
  /\ args.fn = "Reconcile"
  /\ Len(args.opts) = 1
  /\ DOMAIN LastMapping = {"t1", "t2"}
  /\ LastMapping["t1"] = "a1"
  /\ LastMapping["t2"] = ""
  /\ TaskPairs(Deref(call.Reconcile).Tasks.elems)
       = {<<"t1", Some([Value |-> "a1"])>>, <<"t2", Nil>>}

\* C7: Kill leaves the AgentID absent exactly when the given agentID is the empty
\* string, else present with that value; the TaskID carries the given taskID.
C7_KillAgentOptional ==
  (pc # "start" /\ args.fn = "Kill") =>
    LET kill == Deref(built.Kill)
    IN /\ kill.AgentID = Nil <=> args.agentID = ""
       /\ args.agentID # "" => kill.AgentID = Some([Value |-> args.agentID])
       /\ kill.TaskID = [Value |-> args.taskID]

C7_Witness ==
  /\ pc = "built"
  /\ args.fn = "Kill"
  /\ args.agentID = ""
  /\ args.taskID = ""
  /\ Deref(call.Kill).AgentID = Nil
  /\ Deref(call.Kill).TaskID.Value = ""

\* C8: of two Accept calls built one after the other, the second holds the offer
\* identifiers and operations of its own modifiers only, and the first still
\* holds those of its own modifiers.
C8_FreshAccumulator ==
  first # Nil =>
    LET second == Deref(call.Accept)
        one == Deref(Deref(first).Accept)
    IN /\ Range(second.OfferIDs.elems) = OffersOf(args.ops)
       /\ second.Operations.elems = ExpectedOperations(args.ops)
       /\ Range(one.OfferIDs.elems) = OffersOf(firstArgs)
       /\ one.Operations.elems = ExpectedOperations(firstArgs)

C8_Witness ==
  /\ first # Nil
  /\ Range(firstArgs) \cap Range(args.ops) # {}
  /\ OffersOf(firstArgs) \ OffersOf(args.ops) # {}
  /\ Len(ExpectedOperations(firstArgs)) > Len(ExpectedOperations(args.ops))
  /\ Range(Deref(call.Accept).OfferIDs.elems) = OffersOf(args.ops)

\* C9: once a Framework modifier has been applied, the FrameworkID is present
\* with the id of the last one applied, whatever the constructor had set; and
\* applying it never aborts.
C9_FrameworkOverwrites ==
  /\ lastFw # Nil => call.FrameworkID = Some([Value |-> Deref(lastFw)])
  /\ last.fn = "Framework" => pc = "built"

C9_Witness ==
  /\ pc = "built"
  /\ args.fn = "Subscribe"
  /\ built.FrameworkID = Some([Value |-> "f1"])
  /\ lastFw = Some("f2")
  /\ call.FrameworkID = Some([Value |-> "f2"])

\* C10: a modifier step keeps the Type and the populated payload variants as the
\* constructor left them; a Framework step changes nothing but the FrameworkID,
\* a Filters step nothing but the Filters field of the Accept or Decline payload.
C10_ModifiersKeepShape ==
  [][(pc = "built" /\ last'.fn \in {"Framework", "Filters"}) =>
       /\ call'.Type = built.Type
       /\ Populated(call') = Populated(built)
       /\ WithoutFilters(WithoutFrameworkID(call')) = WithoutFilters(WithoutFrameworkID(built))
       /\ last'.fn = "Framework" => WithoutFrameworkID(call') = WithoutFrameworkID(call)
       /\ last'.fn = "Filters" => WithoutFilters(call') = WithoutFilters(call)]_vars

C10_Witness ==
  /\ pc = "built"
  /\ args.fn = "Accept"
  /\ built.FrameworkID = Nil
  /\ call.FrameworkID # Nil
  /\ Deref(call.Accept).Filters # Nil
  /\ Deref(call.Accept).OfferIDs = Deref(built.Accept).OfferIDs
  /\ Deref(call.Accept).Operations = Deref(built.Accept).Operations

====
